---- MODULE Spec2Model ----
(***************************************************************************)
(* A model of meshio's STL codec, src/meshio/stl_io.py.                    *)
(*                                                                         *)
(* Files are sequences of bytes (0..255).  Floating-point values are       *)
(* modelled on the integers, plus the two special values the normal        *)
(* computation can produce, NegZero (-0.0) and NaN.  Vertex coordinates    *)
(* are drawn from integers, among them one that float32 cannot represent.  *)
(***************************************************************************)
EXTENDS Integers, Sequences, FiniteSets, TLC

\* ------------------------------------------------------------------ bounds

\* The largest number of triangles of a mesh handed to write.
MaxTris == 2
\* The largest number of facets handed directly to data_from_facets.
MaxFacets == 2

\* ------------------------------------------------------------ sequences

Range(s) == {s[i] : i \in 1..Len(s)}

Min(S) == CHOOSE x \in S : \A y \in S : x <= y

RECURSIVE Concat(_)
\* numpy.concatenate / b''.join: the parts of a sequence of sequences, in order.
Concat(ss) == IF ss = <<>> THEN <<>> ELSE Head(ss) \o Concat(Tail(ss))

RECURSIVE Repeat(_, _)
Repeat(x, n) == IF n <= 0 THEN <<>> ELSE <<x>> \o Repeat(x, n - 1)

\* The sequences over S of length lo..hi.
SeqsOf(S, lo, hi) == UNION {[1..n -> S] : n \in lo..hi}

Pow2(n) == 2 ^ n

\* ------------------------------------------------- the geometry builder

\* Row order of numpy.unique(axis=0): lexicographic on the coordinates.
LexLess(p, q) ==
    \/ p[1] < q[1]
    \/ p[1] = q[1] /\ p[2] < q[2]
    \/ p[1] = q[1] /\ p[2] = q[2] /\ p[3] < q[3]

\* The distinct rows of pts in sorted order (the first result of
\* numpy.unique).
SortedRows(S) ==
    [j \in 1..Cardinality(S) |->
        CHOOSE p \in S : Cardinality({q \in S : LexLess(q, p)}) = j - 1]

\* The index and inverse results of numpy.unique, given the sorted rows.
UniqueOf(pts, uniq) ==
    [uniq |-> uniq,
     idx |-> [j \in 1..Len(uniq) |->
                Min({i \in 1..Len(pts) : pts[i] = uniq[j]}) - 1],
     inv |-> [i \in 1..Len(pts) |->
                (CHOOSE j \in 1..Len(uniq) : uniq[j] = pts[i]) - 1]]

\* numpy.unique(pts, axis=0, return_index=True, return_inverse=True): the
\* distinct rows in sorted order, for each the index of its first occurrence
\* in pts, and for each row of pts the index of its value among the sorted
\* rows.  Indices are 0-based values held in 1-based sequences.
numpy_unique(pts) == UniqueOf(pts, SortedRows(Range(pts)))

\* numpy.argsort(a): the 0-based indices of a in ascending order of value
\* (ties by index; the arrays sorted here hold distinct values).
argsort(a) ==
    [r \in 1..Len(a) |->
        (CHOOSE i \in 1..Len(a) :
            Cardinality({j \in 1..Len(a) :
                a[j] < a[i] \/ (a[j] = a[i] /\ j < i)}) = r - 1) - 1]

\* a[ix]: the elements of a at the 0-based indices ix.
Take(a, ix) == [i \in 1..Len(ix) |-> a[ix[i] + 1]]

\* a.reshape(-1, 3) of a flat array whose length is a multiple of 3.
reshape3(a) == [t \in 1..(Len(a) \div 3) |-> <<a[3*t - 2], a[3*t - 1], a[3*t]>>]

NoMesh == [points |-> <<>>, triangle |-> <<>>]

Mesh(err, points, triangle) ==
    [err |-> err, points |-> points, triangle |-> triangle]

\* Line 80 without the reordering by k: the points in the sorted order
\* numpy.unique leaves them in.
FirstSeenPoints_sorted(pts, idx, k) == Take(pts, idx)

\* Line 80: points = pts[idx[k]].
FirstSeenPoints(pts, idx, k) == Take(pts, Take(idx, k))

\* Line 81 with k taken for its own inverse.
InverseOrder_identity(k) == k

\* Line 81: inv_k = argsort(k).
InverseOrder(k) == argsort(k)

\* Line 82: cells = inv_k[inv].reshape(-1, 3), which raises when the number
\* of rows is no multiple of 3.
CellsOf(points, flat) ==
    IF Len(flat) % 3 # 0 THEN Mesh("ValueError", <<>>, <<>>)
    ELSE Mesh("", points, reshape3(flat))

\* --------------------------------------------------- floating-point values

\* A floating-point value of the model: an integer, or one of the two
\* non-integers the normal computation produces from integer coordinates.
Fl(n) == [tag |-> "num", v |-> n]
NegZero == [tag |-> "-0.0", v |-> 0]
NaN == [tag |-> "nan", v |-> 0]

\* u * v in IEEE arithmetic, u and v integers: a zero product of a negative
\* factor is -0.0.
FMul(u, v) ==
    IF u * v # 0 THEN Fl(u * v)
    ELSE IF (u < 0 /\ v = 0) \/ (u = 0 /\ v < 0) THEN NegZero ELSE Fl(0)

\* p - q in IEEE arithmetic (round to nearest): -0.0 - 0.0 = -0.0, every
\* other zero difference is 0.0.
FSub(p, q) ==
    IF p.v - q.v # 0 THEN Fl(p.v - q.v)
    ELSE IF p = NegZero /\ q # NegZero THEN NegZero ELSE Fl(0)

\* c / nrm for nrm >= 0 (numpy: a warning, not an error, when nrm is 0).
FDiv(c, nrm) ==
    IF nrm = 0 THEN NaN
    ELSE IF c = NegZero THEN NegZero
    ELSE Fl(c.v \div nrm)

Abs(x) == IF x < 0 THEN 0 - x ELSE x

\* numpy.cross(u, v) of two rows of integers.
cross(u, v) ==
    << FSub(FMul(u[2], v[3]), FMul(u[3], v[2])),
       FSub(FMul(u[3], v[1]), FMul(u[1], v[3])),
       FSub(FMul(u[1], v[2]), FMul(u[2], v[1])) >>

\* The triangles whose normal the integer model computes exactly: the cross
\* product has at most one non-zero component, so its length is that
\* component's magnitude.
ExactNormal(tri) ==
    LET cp == cross([i \in 1..3 |-> tri[2][i] - tri[1][i]],
                    [i \in 1..3 |-> tri[3][i] - tri[1][i]])
    IN Cardinality({i \in 1..3 : cp[i].v # 0}) <= 1

\* _compute_normals for one triangle (three rows).
_compute_normals(tri) ==
    LET normals == cross([i \in 1..3 |-> tri[2][i] - tri[1][i]],
                         [i \in 1..3 |-> tri[3][i] - tri[1][i]])
        nz == {i \in 1..3 : normals[i].v # 0}
        nrm == IF nz = {} THEN 0 ELSE Abs(normals[CHOOSE i \in nz : TRUE].v)
    IN [i \in 1..3 |-> FDiv(normals[i], nrm)]

\* ------------------------------------------------------ text of a float

RECURSIVE Digits(_)
\* The decimal digits of n >= 0, as ASCII bytes.
Digits(n) == IF n < 10 THEN <<48 + n>> ELSE Digits(n \div 10) \o <<48 + (n % 10)>>

\* '{}'.format(x) of a numpy.float64: the shortest repr, which for the
\* integers of the model (below 1e16) is the digits followed by ".0".
Format(x) ==
    IF x = NaN THEN <<110, 97, 110>>
    ELSE IF x = NegZero THEN <<45, 48, 46, 48>>
    ELSE IF x.v < 0 THEN <<45>> \o Digits(0 - x.v) \o <<46, 48>>
    ELSE Digits(x.v) \o <<46, 48>>

IsDigit(b) == b >= 48 /\ b <= 57

RECURSIVE DigitsValue(_)
\* The value of a non-empty sequence of ASCII digits.
DigitsValue(ds) ==
    IF Len(ds) = 1 THEN ds[1] - 48
    ELSE 10 * DigitsValue(SubSeq(ds, 1, Len(ds) - 1)) + (ds[Len(ds)] - 48)

BadFloat == [tag |-> "ValueError", v |-> 0]

\* float(tok) on the decimal forms [sign] digits [ "." zeros ]; "nan" is the
\* float NaN.  Every other token of the streams read here is not a float
\* and raises ValueError.  -0.0 compares equal to 0.0 and is read as 0.
float(tok) ==
    LET signed == Len(tok) >= 1 /\ tok[1] \in {43, 45}
        body == IF signed THEN Tail(tok) ELSE tok
        dots == {i \in 1..Len(body) : body[i] = 46}
        whole == IF dots = {} THEN body ELSE SubSeq(body, 1, Min(dots) - 1)
        frac == IF dots = {} THEN <<>> ELSE SubSeq(body, Min(dots) + 1, Len(body))
    IN IF body = <<110, 97, 110>> THEN NaN
       ELSE IF /\ whole # <<>> /\ Len(whole) <= 9
               /\ \A i \in 1..Len(whole) : IsDigit(whole[i])
               /\ \A i \in 1..Len(frac) : frac[i] = 48
            THEN IF signed /\ tok[1] = 45 THEN Fl(0 - DigitsValue(whole))
                 ELSE Fl(DigitsValue(whole))
       ELSE BadFloat

\* -------------------------------------------------------- binary values

RECURSIVE Log2(_)
\* floor(log2 n), n >= 1.
Log2(n) == IF n < 2 THEN 0 ELSE 1 + Log2(n \div 2)

\* x.astype(numpy.float32), written little-endian: sign, 8-bit exponent,
\* 23-bit mantissa, rounded to nearest, ties to even.  nanSign is the sign
\* bit of the NaN the platform's 0.0/0.0 produces.
Float32Bytes(x, nanSign) ==
    IF x = NaN THEN <<0, 0, 192, 127 + 128 * nanSign>>
    ELSE IF x = NegZero THEN <<0, 0, 0, 128>>
    ELSE IF x.v = 0 THEN <<0, 0, 0, 0>>
    ELSE
    LET n == Abs(x.v)
        sign == IF x.v < 0 THEN 1 ELSE 0
        e == Log2(n)
        shift == e - 23
        q == IF shift <= 0 THEN n * Pow2(0 - shift) ELSE n \div Pow2(shift)
        r == IF shift <= 0 THEN 0 ELSE n % Pow2(shift)
        half == IF shift <= 0 THEN 1 ELSE Pow2(shift - 1)
        up == shift > 0 /\ (r > half \/ (r = half /\ q % 2 = 1))
        sig0 == IF up THEN q + 1 ELSE q
        carry == sig0 = Pow2(24)
        sig == IF carry THEN Pow2(23) ELSE sig0
        ex == (IF carry THEN e + 1 ELSE e) + 127
        mant == sig - Pow2(23)
    IN << mant % 256, (mant \div 256) % 256,
          (mant \div 65536) + 128 * (ex % 2), (ex \div 2) + 128 * sign >>

\* The value of four little-endian float32 bytes (numpy.fromstring with
\* dtype float32): an integer where the value is one (below 2^31 in
\* magnitude; -0.0 compares equal to 0.0), the bytes themselves otherwise.
Float32Value(b) ==
    LET sign == b[4] \div 128
        ex == (b[4] % 128) * 2 + (b[3] \div 128)
        mant == (b[3] % 128) * 65536 + b[2] * 256 + b[1]
        sig == Pow2(23) + mant
        p == ex - 150
        mag == IF p >= 0 THEN sig * Pow2(p) ELSE sig \div Pow2(0 - p)
    IN IF ex = 0 /\ mant = 0 THEN 0
       ELSE IF ex # 0 /\ ex # 255 /\ p <= 7 /\ p >= 0 - 23
               /\ (p >= 0 \/ sig % Pow2(0 - p) = 0)
            THEN IF sign = 1 THEN 0 - mag ELSE mag
       ELSE [tag |-> "float32", v |-> b]

\* numpy.uint32(n) written little-endian.
UInt32Bytes(n) ==
    <<n % 256, (n \div 256) % 256, (n \div 65536) % 256, (n \div 16777216) % 256>>

\* The value of four little-endian uint32 bytes.
UInt32Value(b) == b[1] + 256 * b[2] + 65536 * b[3] + 16777216 * b[4]

\* ----------------------------------------------------------- the writers

\* The rows of each triangle taken in the opposite winding.
IndexPoints_reversed(points, tris) ==
    [t \in 1..Len(tris) |-> [j \in 1..3 |-> points[tris[t][4 - j] + 1]]]

\* points[cells['triangle']]: each triangle's three rows.
IndexPoints(points, tris) ==
    [t \in 1..Len(tris) |-> [j \in 1..3 |-> points[tris[t][j] + 1]]]

\* The 80 characters of _write_binary's message.
HeaderLen == 80

\* 'This file was generated by meshio.'
HeaderMsg ==
    <<84, 104, 105, 115, 32, 102, 105, 108, 101, 32, 119, 97, 115, 32, 103, 101,
      110, 101, 114, 97, 116, 101, 100, 32, 98, 121, 32, 109, 101, 115, 104,
      105, 111, 46>>

\* The bytes _write_ascii writes to the file it opens.
_write_ascii(points, tris) ==
    LET pts == IndexPoints(points, tris)
        vertex(pt) ==
            <<32, 32, 118, 101, 114, 116, 101, 120, 32>>          \* '  vertex '
            \o Format(Fl(pt[1])) \o <<32>> \o Format(Fl(pt[2])) \o <<32>>
            \o Format(Fl(pt[3]))
            \o <<10>>
        facet(local_pts) ==
            LET normal == _compute_normals(local_pts) IN
            <<102, 97, 99, 101, 116, 32, 110, 111, 114, 109, 97, 108, 32>>  \* 'facet normal '
            \o Format(normal[1]) \o <<32>> \o Format(normal[2]) \o <<32>>
            \o Format(normal[3]) \o <<10>>
            \o <<32, 111, 117, 116, 101, 114, 32, 108, 111, 111, 112, 10>>  \* ' outer loop\n'
            \o vertex(local_pts[1]) \o vertex(local_pts[2]) \o vertex(local_pts[3])
            \o <<32, 101, 110, 100, 108, 111, 111, 112, 10>>           \* ' endloop\n'
            \o <<101, 110, 100, 102, 97, 99, 101, 116, 10>>            \* 'endfacet\n'
    IN <<115, 111, 108, 105, 100, 10>>                                 \* 'solid\n'
       \o Concat([t \in 1..Len(pts) |-> facet(pts[t])])
       \o <<101, 110, 100, 115, 111, 108, 105, 100, 10>>               \* 'endsolid\n'

\* The header _write_binary writes: the message, padded with 'X' to 80
\* characters, and then a newline.
BinaryHeader == HeaderMsg \o Repeat(88, HeaderLen - Len(HeaderMsg)) \o <<10>>

\* The bytes _write_binary writes to the file it opens.
_write_binary(points, tris, nanSign) ==
    LET pts == IndexPoints(points, tris)
        f32x3(v) == Float32Bytes(v[1], nanSign) \o Float32Bytes(v[2], nanSign)
                    \o Float32Bytes(v[3], nanSign)
        row(v) == f32x3([i \in 1..3 |-> Fl(v[i])])
        record(pt) ==
            f32x3(_compute_normals(pt))
            \o row(pt[1]) \o row(pt[2]) \o row(pt[3])
            \o <<0, 0>>                                             \* numpy.uint16(0)
    IN BinaryHeader
       \o UInt32Bytes(Len(tris))
       \o Concat([t \in 1..Len(pts) |-> record(pts[t])])


\* ------------------------------------------------------- streams and text

\* f.read(n) at offset pos: the next n bytes, fewer at the end of the stream.
read_bytes(f, pos, n) ==
    SubSeq(f, pos + 1, IF pos + n <= Len(f) THEN pos + n ELSE Len(f))

\* f.readline() at offset pos: the bytes up to and including the next
\* newline, or up to the end of the stream; empty at the end.
readline(f, pos) ==
    LET nl == {i \in (pos + 1)..Len(f) : f[i] = 10}
    IN SubSeq(f, pos + 1, IF nl = {} THEN Len(f) ELSE Min(nl))

IsCont(b) == b >= 128 /\ b <= 191

\* The number of continuation bytes the lead byte b announces; -1 for a
\* byte that cannot start a character.
Utf8Need(b) ==
    IF b <= 127 THEN 0
    ELSE IF b >= 194 /\ b <= 223 THEN 1
    ELSE IF b >= 224 /\ b <= 239 THEN 2
    ELSE IF b >= 240 /\ b <= 244 THEN 3
    ELSE -1

\* The range of the byte that follows the lead byte b (no overlong forms,
\* no surrogates, nothing above U+10FFFF).
Utf8Second(b) ==
    IF b = 224 THEN 160..191
    ELSE IF b = 237 THEN 128..159
    ELSE IF b = 240 THEN 144..191
    ELSE IF b = 244 THEN 128..143
    ELSE 128..191

\* Whether the bytes bs are well-formed UTF-8: every byte that is no
\* continuation byte starts a complete character, and every continuation
\* byte belongs to one.
Utf8(bs) ==
    \A i \in 1..Len(bs) :
        IF IsCont(bs[i])
        THEN \E d \in 1..Min({3, i - 1}) :
                /\ Utf8Need(bs[i - d]) >= d
                /\ \A e \in 1..(d - 1) : IsCont(bs[i - e])
        ELSE /\ Utf8Need(bs[i]) >= 0
             /\ \A d \in 1..Utf8Need(bs[i]) :
                   /\ i + d <= Len(bs)
                   /\ IsCont(bs[i + d])
                   /\ d = 1 => bs[i + 1] \in Utf8Second(bs[i])

\* Whether bs.decode('utf-8') succeeds (it raises UnicodeDecodeError
\* otherwise).  A decoded line is kept as its bytes: every character the
\* code compares it with is ASCII.
decodes(bs) == Utf8(bs)

\* The characters str.strip() and str.split() treat as whitespace, among
\* the one-byte characters.
Whitespace == {9, 10, 11, 12, 13, 28, 29, 30, 31, 32}

\* line.strip()
strip(line) ==
    LET keep == {i \in 1..Len(line) : line[i] \notin Whitespace}
    IN IF keep = {} THEN <<>>
       ELSE SubSeq(line, Min(keep), CHOOSE i \in keep : \A j \in keep : j <= i)

\* line.split(): the maximal runs of non-whitespace characters, in order.
split(line) ==
    LET isStart(i) == line[i] \notin Whitespace
                      /\ (i = 1 \/ line[i - 1] \in Whitespace)
        starts == {i \in 1..Len(line) : isStart(i)}
        endOf(i) == Min({j \in i..Len(line) :
                          j = Len(line) \/ line[j + 1] \in Whitespace})
        nth(k) == CHOOSE i \in starts : Cardinality({j \in starts : j < i}) = k - 1
    IN [k \in 1..Cardinality(starts) |-> SubSeq(line, nth(k), endOf(nth(k)))]

\* line[:n] == prefix, for a prefix of n characters.
StartsWith(line, prefix) ==
    Len(line) >= Len(prefix) /\ SubSeq(line, 1, Len(prefix)) = prefix

S_solid == <<115, 111, 108, 105, 100>>
S_endsolid == <<101, 110, 100, 115, 111, 108, 105, 100>>
S_facet == <<102, 97, 99, 101, 116>>
S_outer_loop == <<111, 117, 116, 101, 114, 32, 108, 111, 111, 112>>
S_vertex == <<118, 101, 114, 116, 101, 120>>
S_endloop == <<101, 110, 100, 108, 111, 111, 112>>
S_endfacet == <<101, 110, 100, 102, 97, 99, 101, 116>>

\* ------------------------------------------------------ the ASCII parser

\* What a parsing step hands back: the error raised ("" for none), the
\* stream offset after it, and the rows it parsed.
Step(err, pos, rows) == [err |-> err, pos |-> pos, rows |-> rows]

\* numpy.vectorize(float)(parts[1:]) for a line of four parts: the three
\* values, or the ValueError of the first part that is no float.
flt(parts) ==
    IF \E i \in 2..4 : float(parts[i]) = BadFloat THEN <<>>
    ELSE <<[i \in 1..3 |-> float(parts[i + 1]).v]>>

\* One pass of _read_facet's loop body, lines 57-60: a 'vertex x y z' line.
read_vertex(raw, parts, pos) ==
    IF ~decodes(raw) THEN Step("UnicodeDecodeError", pos, <<>>)
    ELSE IF Len(parts) # 4 THEN Step("AssertionError", pos, <<>>)
    ELSE IF parts[1] # S_vertex THEN Step("AssertionError", pos, <<>>)
    ELSE IF flt(parts) = <<>> THEN Step("ValueError", pos, <<>>)
    ELSE Step("", pos + Len(raw), flt(parts))

\* A line that need only begin with `word` once stripped.
expect_line_prefix(raw, word, pos) ==
    IF ~decodes(raw) THEN Step("UnicodeDecodeError", pos, <<>>)
    ELSE IF ~StartsWith(strip(raw), word) THEN Step("AssertionError", pos, <<>>)
    ELSE Step("", pos + Len(raw), <<>>)

\* A line that must be exactly `word` once stripped (lines 40, 51, 63).
expect_line(raw, word, pos) ==
    IF ~decodes(raw) THEN Step("UnicodeDecodeError", pos, <<>>)
    ELSE IF strip(raw) # word THEN Step("AssertionError", pos, <<>>)
    ELSE Step("", pos + Len(raw), <<>>)

\* The top of _read_ascii's loop, lines 31-37: err "break" at an 'endsolid'
\* line, no error at a line that begins with 'facet' once stripped.
loop_top(raw, pos) ==
    IF ~decodes(raw) THEN Step("UnicodeDecodeError", pos, <<>>)
    ELSE IF StartsWith(raw, S_endsolid) THEN Step("break", pos + Len(raw), <<>>)
    ELSE IF ~StartsWith(strip(raw), S_facet) THEN Step("AssertionError", pos, <<>>)
    ELSE Step("", pos + Len(raw), <<>>)

\* ----------------------------------------------------- the binary parser

\* numpy.fromstring(f.read(4), dtype=numpy.uint32)[0]: ValueError when the
\* bytes are not a whole number of elements, IndexError when there are none.
read_count(f, pos) ==
    LET b == read_bytes(f, pos, 4)
    IN IF Len(b) = 0 THEN Step("IndexError", pos, 0)
       ELSE IF Len(b) # 4 THEN Step("ValueError", pos, 0)
       ELSE Step("", pos + 4, UInt32Value(b))

\* One pass of _read_binary's loop: skip 12 bytes, read 36 as rows of three
\* float32, skip 2.  fromstring raises on a size that is no multiple of 4,
\* reshape(-1, 3) on a count of floats that is no multiple of 3; a short
\* read that passes both gives fewer than three rows.
read_binary_pass(f, pos) ==
    LET p1 == pos + Len(read_bytes(f, pos, 12))
        b == read_bytes(f, p1, 36)
        p2 == p1 + Len(b)
        p3 == p2 + Len(read_bytes(f, p2, 2))
        val(k) == Float32Value(SubSeq(b, 4 * k - 3, 4 * k))
    IN IF Len(b) % 4 # 0 THEN Step("ValueError", p2, <<>>)
       ELSE IF (Len(b) \div 4) % 3 # 0 THEN Step("ValueError", p2, <<>>)
       ELSE Step("", p3,
                 [r \in 1..(Len(b) \div 12) |->
                     <<val(3 * r - 2), val(3 * r - 1), val(3 * r)>>])

\* Whether numpy.array(facets) is handed arrays of different row counts.
ragged(fs) == \E i, j \in 1..Len(fs) : Len(fs[i]) # Len(fs[j])

\* ------------------------------------------------------------ the inputs

\* Vertex positions, all in the plane x = 1 (so that every triangle's
\* normal is exact in the integer model).  PE is not a float32 value: it
\* rounds to PF.
PA == <<1, 0, 0>>
PB == <<1, 1, 0>>
PC == <<1, 0, 1>>
PD == <<1, 1, 1>>
PE == <<1, 0, 16777217>>
PF == <<1, 0, 16777216>>

\* The points arrays handed to write: distinct positions, a repeated
\* position, and positions that differ only beyond float32 precision.
VertexLists == {<<PA, PB, PC>>, <<PA, PB, PC, PD>>, <<PA, PB, PA>>, <<PB, PE, PF>>}

\* The rows cells['triangle'] is made of.
TriangleSet == {<<0, 1, 2>>, <<2, 1, 0>>, <<0, 2, 3>>, <<1, 1, 2>>, <<1, 2, 0>>}

ValidTris(points) == {t \in TriangleSet : \A j \in 1..3 : t[j] < Len(points)}

\* The key sets of the cells mapping, and the point_data / field_data
\* mappings by their keys (None and an empty mapping are both falsy: {}).
KeySets == {{}, {"triangle"}, {"tetra"}, {"triangle", "tetra"}}
DataSets == {{}, {"u"}}

\* The mesh whose files the supplied streams are made from.
CanonPoints == <<PA, PB, PC, PD>>
CanonTris == <<<<0, 1, 2>>, <<0, 2, 3>>>>

RECURSIVE SplitLinesFrom(_, _)
\* The lines of a stream as readline returns them, from offset pos on.
SplitLinesFrom(f, pos) ==
    IF pos >= Len(f) THEN <<>>
    ELSE <<readline(f, pos)>> \o SplitLinesFrom(f, pos + Len(readline(f, pos)))

\* Lines put in the place of a line of a well-formed ASCII file.
JunkLines ==
    { <<>>,                                                   \* the line removed
      <<9, 102, 97, 99, 101, 116, 13, 10>>,                   \* '\tfacet\r\n'
      <<32, 101, 110, 100, 115, 111, 108, 105, 100, 10>>,     \* ' endsolid\n'
      <<101, 110, 100, 115, 111, 108, 105, 100, 32, 120, 10>>,  \* 'endsolid x\n'
      <<111, 117, 116, 101, 114, 32, 108, 111, 111, 112, 13, 10>>,  \* 'outer loop\r\n'
      <<111, 117, 116, 101, 114, 32, 32, 108, 111, 111, 112, 10>>,  \* 'outer  loop\n'
      <<118, 101, 114, 116, 101, 120, 9, 50, 32, 32, 51, 46, 32, 45, 52, 10>>,  \* 'vertex\t2  3. -4\n'
      <<118, 101, 114, 116, 101, 120, 32, 49, 32, 48, 10>>,   \* 'vertex 1 0\n'
      <<118, 101, 114, 116, 101, 120, 32, 49, 32, 48, 32, 48, 32, 48, 10>>,  \* 'vertex 1 0 0 0\n'
      <<118, 101, 114, 116, 120, 32, 49, 32, 48, 32, 48, 10>>,  \* 'vertx 1 0 0\n'
      <<118, 101, 114, 116, 101, 120, 32, 49, 32, 48, 32, 120, 10>>,  \* 'vertex 1 0 x\n'
      <<101, 110, 100, 108, 111, 111, 112, 10>>,              \* 'endloop\n'
      <<101, 110, 100, 102, 97, 99, 101, 116, 10>>,           \* 'endfacet\n'
      <<101, 110, 100, 102, 97, 99, 101, 116, 32, 49, 10>>,   \* 'endfacet 1\n'
      <<102, 97, 99, 101, 116, 195, 10>> }                    \* 'facet' + a broken UTF-8 byte

Prefixes(f) == {SubSeq(f, 1, n) : n \in 0..(Len(f) - 1)}

\* The two files write makes of that mesh, and the lines of the ASCII one.
CanonBinary == _write_binary(CanonPoints, CanonTris, 0)
CanonAscii == _write_ascii(CanonPoints, CanonTris)
CanonLines == SplitLinesFrom(CanonAscii, 0)

\* A binary STL file as the format defines it: 80 header bytes with no
\* newline, the count, the records.
StandardBinary ==
    SubSeq(CanonBinary, 1, HeaderLen) \o SubSeq(CanonBinary, HeaderLen + 2, Len(CanonBinary))

\* The ASCII file with one line after its first replaced.
ReplacedLines ==
    {Concat([k \in 1..Len(CanonLines) |-> IF k = i THEN l ELSE CanonLines[k]]) :
        i \in 2..Len(CanonLines), l \in JunkLines}

\* The streams handed to read_buffer that no write of the model produced:
\* every truncation of a written binary and ASCII file, the ASCII file with
\* one line replaced, a standard binary file, and a few short streams.
SuppliedStreams ==
    Prefixes(CanonBinary) \cup Prefixes(CanonAscii) \cup ReplacedLines
    \cup {StandardBinary, <<128>>, <<10>>, S_solid, <<115, 111, 108, 105, 100, 10>>,
          BinaryHeader \o UInt32Bytes(0)}

\* The facets handed directly to data_from_facets: every facet over three
\* points, and two lists over more points.
FacetPoints == {<<0, 0, 1>>, <<0, 1, 0>>, <<1, 0, 0>>}
FacetSet == [1..3 -> FacetPoints]
ExampleFacets ==
    { <<<<PA, PB, PC>>, <<PA, PC, PD>>>>,
      <<<<PA, PB, PC>>, <<PB, PD, PE>>>> }

\* -------------------------------------------------------------- the state

VARIABLES
    call,           \* the arguments of the write call made (NoCall before)
    wstate,         \* "none", "raised" or "returned": how write ended
    opened,         \* whether write opened its output file
    file,           \* the bytes of the file written, or of the stream supplied
    pc,             \* where the reader is
    pos,            \* the reader's offset in the stream
    facets,         \* the facets parsed so far
    facet,          \* the rows of the facet _read_facet is filling
    num_triangles,  \* _read_binary's triangle count
    pts,            \* data_from_facets: the concatenated rows
    u,              \* data_from_facets: the results of numpy.unique
    k,              \* data_from_facets: argsort(idx)
    result,         \* the mesh returned (NoMesh before)
    err,            \* the exception raised by the reader ("" for none)
    errAt           \* the function that raised it

vars == <<call, wstate, opened, file, pc, pos, facets, facet, num_triangles, pts, u, k,
          result, err, errAt>>

\* The variables of data_from_facets.
dvars == <<pts, u, k>>

NoUnique == [uniq |-> <<>>, idx |-> <<>>, inv |-> <<>>]

NoCall == [points |-> <<>>, triangle |-> <<>>, keys |-> {}, point_data |-> {},
           field_data |-> {}, write_binary |-> FALSE]

Init ==
    /\ call = NoCall
    /\ wstate = "none"
    /\ opened = FALSE
    /\ file = <<>>
    /\ pc = "idle"
    /\ pos = 0
    /\ facets = <<>>
    /\ facet = <<>>
    /\ num_triangles = 0
    /\ pts = <<>>
    /\ u = NoUnique
    /\ k = <<>>
    /\ result = NoMesh
    /\ err = ""
    /\ errAt = ""

\* ------------------------------------------------------------- the writer

\* The assertions of write without the one on field_data.
write_checks_no_field_data(point_data, field_data, keys) ==
    IF point_data # {} THEN "AssertionError"
    ELSE IF ~(Cardinality(keys) = 1 /\ keys = {"triangle"}) THEN "AssertionError"
    ELSE ""

\* The assertions of write, lines 114-119: the error they raise, "" if none.
write_checks(point_data, field_data, keys) ==
    IF point_data # {} THEN "AssertionError"
    ELSE IF field_data # {} THEN "AssertionError"
    ELSE IF ~(Cardinality(keys) = 1 /\ keys = {"triangle"}) THEN "AssertionError"
    ELSE ""

\* write(filename, points, cells, point_data, cell_data, field_data,
\* write_binary): the assertions, then the writer chosen by write_binary.
write ==
    /\ pc = "idle"
    /\ wstate = "none"
    /\ \E points \in VertexLists, n \in 0..MaxTris, keys \in KeySets,
          point_data \in DataSets, field_data \in DataSets,
          write_binary \in BOOLEAN, nanSign \in {0, 1} :
       \E tris \in [1..n -> ValidTris(points)] :
          /\ call' = [points |-> points, triangle |-> tris, keys |-> keys,
                      point_data |-> point_data, field_data |-> field_data,
                      write_binary |-> write_binary]
          /\ IF write_checks(point_data, field_data, keys) # ""
             THEN /\ wstate' = "raised"
                  /\ UNCHANGED <<opened, file, pc>>
             ELSE /\ wstate' = "returned"
                  /\ opened' = TRUE
                  /\ file' = IF write_binary THEN _write_binary(points, tris, nanSign)
                             ELSE _write_ascii(points, tris)
                  /\ pc' = "ready"
    /\ UNCHANGED <<pos, facets, facet, num_triangles, dvars, result, err, errAt>>

\* A stream from elsewhere is handed to the reader.
Supply ==
    /\ pc = "idle"
    /\ wstate = "none"
    /\ \E s \in SuppliedStreams : file' = s
    /\ pc' = "ready"
    /\ UNCHANGED <<call, wstate, opened, pos, facets, facet, num_triangles, dvars, result, err, errAt>>

\* ------------------------------------------------------------- the reader

\* An exception that is swallowed: the reader stays where it is.
Raise_swallowed(e, at) == UNCHANGED <<pc, err, errAt>>

\* An exception e raised in function `at` ends the call.
Raise(e, at) ==
    /\ pc' = "raised"
    /\ err' = e
    /\ errAt' = at

\* The return of the mesh m ends the call.
Return(m) ==
    /\ pc' = "done"
    /\ result' = [points |-> m.points, triangle |-> m.triangle]

\* read_buffer up to its dispatch: the first line, decoded, selects the
\* parser.
read_buffer ==
    /\ pc = "ready"
    /\ \E line \in {readline(file, 0)} :
          IF ~decodes(line)
          THEN /\ Raise("UnicodeDecodeError", "read_buffer")
               /\ UNCHANGED pos
          ELSE /\ pc' = IF StartsWith(line, S_solid) THEN "_read_ascii" ELSE "_read_binary"
               /\ pos' = Len(line)
               /\ UNCHANGED <<err, errAt>>
    /\ UNCHANGED <<call, wstate, opened, file, facets, facet, num_triangles, dvars, result>>

\* The top of _read_ascii's loop (lines 31-37); at 'endsolid', the break
\* and the call of data_from_facets.
_read_ascii ==
    /\ pc = "_read_ascii"
    /\ \E line \in {readline(file, pos)} : \E r \in {loop_top(line, pos)} :
          IF r.err = "break"
          THEN /\ pc' = "data_from_facets"
               /\ pos' = r.pos
               /\ UNCHANGED <<err, errAt>>
          ELSE IF r.err # ""
          THEN /\ Raise(r.err, "_read_ascii")
               /\ UNCHANGED pos
          ELSE /\ pc' = "_read_facet"
               /\ pos' = r.pos
               /\ UNCHANGED <<err, errAt>>
    /\ UNCHANGED <<call, wstate, opened, file, facets, facet, num_triangles, dvars, result>>

\* The start of _read_facet (lines 50-53): 'outer loop', an empty facet.
_read_facet ==
    /\ pc = "_read_facet"
    /\ \E line \in {readline(file, pos)} : \E r \in {expect_line(line, S_outer_loop, pos)} :
          IF r.err # ""
          THEN /\ Raise(r.err, "_read_facet")
               /\ UNCHANGED <<pos, facet>>
          ELSE /\ pc' = "vertex"
               /\ pos' = r.pos
               /\ facet' = <<>>
               /\ UNCHANGED <<err, errAt>>
    /\ UNCHANGED <<call, wstate, opened, file, facets, num_triangles, dvars, result>>

\* One pass of _read_facet's loop (lines 56-60): a vertex line.
read_facet_vertex ==
    /\ pc = "vertex"
    /\ \E line \in {readline(file, pos)} : \E parts \in {split(line)} :
       \E r \in {read_vertex(line, parts, pos)} :
          IF r.err # ""
          THEN /\ Raise(r.err, "_read_facet")
               /\ UNCHANGED <<pos, facet>>
          ELSE /\ facet' = facet \o r.rows
               /\ pos' = r.pos
               /\ pc' = IF Len(facet) = 2 THEN "endloop" ELSE "vertex"
               /\ UNCHANGED <<err, errAt>>
    /\ UNCHANGED <<call, wstate, opened, file, facets, num_triangles, dvars, result>>

\* The end of _read_facet (lines 62-64) and the append of line 38.
read_facet_return ==
    /\ pc = "endloop"
    /\ \E line \in {readline(file, pos)} : \E r \in {expect_line(line, S_endloop, pos)} :
          IF r.err # ""
          THEN /\ Raise(r.err, "_read_facet")
               /\ UNCHANGED <<pos, facets>>
          ELSE /\ facets' = Append(facets, facet)
               /\ pos' = r.pos
               /\ pc' = "endfacet"
               /\ UNCHANGED <<err, errAt>>
    /\ UNCHANGED <<call, wstate, opened, file, facet, num_triangles, dvars, result>>

\* The bottom of _read_ascii's loop (lines 39-40): 'endfacet'.
read_ascii_endfacet ==
    /\ pc = "endfacet"
    /\ \E line \in {readline(file, pos)} : \E r \in {expect_line(line, S_endfacet, pos)} :
          IF r.err # ""
          THEN /\ Raise(r.err, "_read_ascii")
               /\ UNCHANGED pos
          ELSE /\ pc' = "_read_ascii"
               /\ pos' = r.pos
               /\ UNCHANGED <<err, errAt>>
    /\ UNCHANGED <<call, wstate, opened, file, facets, facet, num_triangles, dvars, result>>

\* _read_binary up to its loop: the triangle count.
_read_binary ==
    /\ pc = "_read_binary"
    /\ \E r \in {read_count(file, pos)} :
          IF r.err # ""
          THEN /\ Raise(r.err, "_read_binary")
               /\ UNCHANGED <<pos, num_triangles>>
          ELSE /\ pc' = "binary_loop"
               /\ pos' = r.pos
               /\ num_triangles' = r.rows
               /\ UNCHANGED <<err, errAt>>
    /\ UNCHANGED <<call, wstate, opened, file, facets, facet, dvars, result>>

\* One pass of _read_binary's loop.
read_binary_loop ==
    /\ pc = "binary_loop"
    /\ Len(facets) < num_triangles
    /\ \E r \in {read_binary_pass(file, pos)} :
          IF r.err # ""
          THEN /\ Raise(r.err, "_read_binary")
               /\ UNCHANGED <<pos, facets>>
          ELSE /\ facets' = Append(facets, r.rows)
               /\ pos' = r.pos
               /\ UNCHANGED <<pc, err, errAt>>
    /\ UNCHANGED <<call, wstate, opened, file, facet, num_triangles, dvars, result>>

\* The end of _read_binary's loop: numpy.array(facets) and the call of
\* data_from_facets.  A ragged list stays an array of arrays in old numpy
\* builds, which concatenate joins, and raises ValueError in new ones.
read_binary_return ==
    /\ pc = "binary_loop"
    /\ Len(facets) >= num_triangles
    /\ \E ragged_raises \in BOOLEAN :
          IF ragged(facets) /\ ragged_raises
          THEN Raise("ValueError", "_read_binary")
          ELSE pc' = "data_from_facets" /\ UNCHANGED <<err, errAt>>
    /\ UNCHANGED <<call, wstate, opened, file, pos, facets, facet, num_triangles, dvars, result>>

\* ----------------------------------------------------- data_from_facets

\* Lines 70-78: the concatenation, which raises when there is no array to
\* concatenate, and numpy.unique, which in old numpy builds raises on an
\* array with no rows.
data_from_facets ==
    /\ pc = "data_from_facets"
    /\ IF facets = <<>>
       THEN Raise("ValueError", "data_from_facets") /\ UNCHANGED dvars
       ELSE \E unique_empty_raises \in BOOLEAN :
               IF Concat(facets) = <<>> /\ unique_empty_raises
               THEN Raise("ValueError", "data_from_facets") /\ UNCHANGED dvars
               ELSE /\ pts' = Concat(facets)
                    /\ u' = numpy_unique(Concat(facets))
                    /\ pc' = "argsort"
                    /\ UNCHANGED <<k, err, errAt>>
    /\ UNCHANGED <<call, wstate, opened, file, pos, facets, facet, num_triangles, result>>

\* Line 79: k = numpy.argsort(idx).
data_from_facets_argsort ==
    /\ pc = "argsort"
    /\ k' = argsort(u.idx)
    /\ pc' = "cells"
    /\ UNCHANGED <<call, wstate, opened, file, pos, facets, facet, num_triangles, pts, u,
                   result, err, errAt>>

\* Lines 80-83: the points, the cells and the return to the caller, which
\* returns them.
data_from_facets_return ==
    /\ pc = "cells"
    /\ \E m \in {CellsOf(FirstSeenPoints(pts, u.idx, k), Take(InverseOrder(k), u.inv))} :
          IF m.err # ""
          THEN Raise(m.err, "data_from_facets") /\ UNCHANGED result
          ELSE Return(m) /\ UNCHANGED <<err, errAt>>
    /\ UNCHANGED <<call, wstate, opened, file, pos, facets, facet, num_triangles, dvars>>

DedupNext ==
    \/ data_from_facets
    \/ data_from_facets_argsort
    \/ data_from_facets_return

ReadNext ==
    \/ read_buffer
    \/ _read_ascii
    \/ _read_facet
    \/ read_facet_vertex
    \/ read_facet_return
    \/ read_ascii_endfacet
    \/ _read_binary
    \/ read_binary_loop
    \/ read_binary_return
    \/ DedupNext

Next ==
    \/ write
    \/ Supply
    \/ ReadNext

Spec == Init /\ [][Next]_vars

\* The reader runs to its end: every step it can take is eventually taken.
LiveSpec == Spec /\ WF_vars(ReadNext)

\* ----------------------------------------- data_from_facets on its own

DedupInit ==
    /\ call = NoCall
    /\ wstate = "none"
    /\ opened = FALSE
    /\ file = <<>>
    /\ pc = "data_from_facets"
    /\ pos = 0
    /\ facets \in SeqsOf(FacetSet, 0, MaxFacets) \cup ExampleFacets
    /\ facet = <<>>
    /\ num_triangles = 0
    /\ pts = <<>>
    /\ u = NoUnique
    /\ k = <<>>
    /\ result = NoMesh
    /\ err = ""
    /\ errAt = ""

DedupSpec == DedupInit /\ [][DedupNext]_vars

\* ------------------------------------------------------------ properties

\* The index of the first occurrence of x in s.
FirstPos(s, x) == Min({i \in 1..Len(s) : s[i] = x})

Distinct(s) == \A i, j \in 1..Len(s) : i # j => s[i] # s[j]

Finished == pc \in {"done", "raised"}

\* C1: for every non-empty sequence of facets, data_from_facets returns a
\* points array that holds each distinct coordinate triple of the flattened
\* facet-point stream exactly once, in the order of first occurrence in
\* that stream.
C1_FirstOccurrenceOrder ==
    (Finished /\ facets # <<>>) =>
        /\ pc = "done"
        /\ Range(result.points) = Range(Concat(facets))
        /\ Distinct(result.points)
        /\ \A i, j \in 1..Len(result.points) :
              i < j => FirstPos(Concat(facets), result.points[i])
                       < FirstPos(Concat(facets), result.points[j])

\* C1's case: facets [(A,B,C),(A,C,D)] gave points [A,B,C,D] and triangles
\* [[0,1,2],[0,2,3]], an order that is not the sorted one.
C1_Witness ==
    /\ pc = "done"
    /\ facets = <<<<PA, PB, PC>>, <<PA, PC, PD>>>>
    /\ result.points = <<PA, PB, PC, PD>>
    /\ result.triangle = <<<<0, 1, 2>>, <<0, 2, 3>>>>
    /\ result.points # SortedRows(Range(Concat(facets)))

\* C2: for every non-empty sequence of facets, cells['triangle'] has one row
\* per facet in facet order, every index lies in [0, len(points)), and
\* points[triangle[t][j]] is exactly the j-th point of facet t.
C2_TrianglesReproduceFacets ==
    (Finished /\ facets # <<>>) =>
        /\ pc = "done"
        /\ Len(result.triangle) = Len(facets)
        /\ \A t \in 1..Len(facets) : \A j \in 1..3 :
              /\ result.triangle[t][j] \in 0..(Len(result.points) - 1)
              /\ result.points[result.triangle[t][j] + 1] = facets[t][j]

\* C2's case: two facets sharing a point, in an order where the index
\* permutation is not its own inverse.
C2_Witness ==
    /\ pc = "done"
    /\ Len(facets) = 2
    /\ facets[1] = <<<<0, 1, 0>>, <<1, 0, 0>>, <<0, 0, 1>>>>
    /\ facets[2][1] = facets[1][3]
    /\ result.triangle[2][1] = 2

\* Whether float coordinate x survives the format's encoding unchanged.
RepresentableIn(x, binary) ==
    IF binary THEN Float32Value(Float32Bytes(Fl(x), 0)) = x
    ELSE float(Format(Fl(x))) = Fl(x)

\* The preconditions of the round trip: the file read is the one write
\* made of a mesh with distinct positions, at least one triangle and
\* coordinates the format represents exactly.
RoundTripCase ==
    /\ Finished
    /\ wstate = "returned"
    /\ Distinct(call.points)
    /\ Len(call.triangle) >= 1
    /\ \A i \in 1..Len(call.points) : \A c \in 1..3 :
          RepresentableIn(call.points[i][c], call.write_binary)

SameMesh ==
    /\ pc = "done"
    /\ result.points = call.points
    /\ result.triangle = call.triangle

\* C3 as stated: in both write modes, reading back the file written from a
\* mesh with pairwise distinct positions and at least one triangle yields
\* the same vertex list in the same order and the same index triples.
C3_RoundTripAsStated == RoundTripCase => SameMesh

\* Every vertex is referenced by a triangle, and the vertices are listed in
\* the order in which the flattened triangle indices first reference them.
FirstUseOrder(points, tris) ==
    /\ \A v \in 0..(Len(points) - 1) : v \in Range(Concat(tris))
    /\ \A v, w \in 0..(Len(points) - 1) :
          v < w => FirstPos(Concat(tris), v) < FirstPos(Concat(tris), w)

\* C3 as amended: the round trip is the identity on the meshes whose vertex
\* list is already in first-use order with no unreferenced vertex.
C3_RoundTripFirstUse ==
    (RoundTripCase /\ FirstUseOrder(call.points, call.triangle)) => SameMesh

\* C3's case: the two-triangle mesh over four vertices, written in binary
\* and read back.
C3_Witness ==
    /\ RoundTripCase
    /\ FirstUseOrder(call.points, call.triangle)
    /\ call.write_binary
    /\ Len(call.points) = 4
    /\ Len(call.triangle) = 2
    /\ pc = "done"

\* C4: _write_binary emits exactly 80 header bytes, then the 4-byte count N
\* at offsets 80..83, then N records of 50 bytes: 84 + 50*N bytes in all.
C4_BinaryLayout ==
    (wstate = "returned" /\ call.write_binary) =>
        /\ Len(file) = 84 + 50 * Len(call.triangle)
        /\ SubSeq(file, 81, 84) = UInt32Bytes(Len(call.triangle))

\* C5: write fails, before any file is opened or any byte written, whenever
\* point_data or field_data is non-empty or cells has a key other than
\* 'triangle'; it reaches a writer only when none of these holds.
C5_WriteRejects ==
    /\ (/\ wstate # "none"
        /\ \/ call.point_data # {}
           \/ call.field_data # {}
           \/ call.keys \ {"triangle"} # {})
       => (wstate = "raised" /\ ~opened /\ file = <<>>)
    /\ (wstate = "returned" \/ opened)
       => (call.point_data = {} /\ call.field_data = {}
           /\ call.keys \ {"triangle"} = {})

\* C5's case: a call rejected for its field data alone.
C5_Witness ==
    /\ wstate = "raised"
    /\ call.field_data # {}
    /\ call.point_data = {}
    /\ call.keys = {"triangle"}
    /\ ~opened

\* The offset just after the count field of a stream read as binary.
CountEnd == Len(readline(file, 0)) + 4

\* C6: when the binary parser has read a count N and fewer than 50*N bytes
\* follow the count field, the read fails: no mesh is returned.
C6_TruncationDetected ==
    ~(/\ pc = "done"
      /\ num_triangles > 0
      /\ Len(file) - CountEnd < 50 * num_triangles)

\* The lines a stripped line of the grammar is tested against.
IsAsciiStream == decodes(readline(file, 0)) /\ StartsWith(readline(file, 0), S_solid)

\* The seven-line group that starts after line `base` of the lines L.
GroupOK(L, base) ==
    /\ base + 7 <= Len(L)
    /\ StartsWith(strip(L[base + 1]), S_facet)
    /\ strip(L[base + 2]) = S_outer_loop
    /\ \A n \in 3..5 : /\ Len(split(L[base + n])) = 4
                       /\ split(L[base + n])[1] = S_vertex
    /\ strip(L[base + 6]) = S_endloop
    /\ strip(L[base + 7]) = S_endfacet

\* The facet a group's three vertex lines spell.
GroupRows(L, base) ==
    [n \in 1..3 |-> [i \in 1..3 |-> float(split(L[base + 2 + n])[i + 1]).v]]

\* The first g groups after the 'solid' line are well formed and are the
\* first g facets parsed.
GroupsParsed(L, g) ==
    \A n \in 0..(g - 1) :
        GroupOK(L, 1 + 7 * n) /\ facets[n + 1] = GroupRows(L, 1 + 7 * n)

\* The lines after 'solid' up to the first 'endsolid' line are whole groups.
WellFormedAscii(L) ==
    /\ \E e \in 2..Len(L) : StartsWith(strip(L[e]), S_endsolid)
    /\ LET e == Min({i \in 2..Len(L) : StartsWith(strip(L[i]), S_endsolid)})
       IN /\ (e - 2) % 7 = 0
          /\ Len(facets) = (e - 2) \div 7
          /\ GroupsParsed(L, (e - 2) \div 7)

\* C7: the ASCII parser returns a mesh only if the lines after 'solid' up
\* to the first 'endsolid' line are repetitions of the seven-line group; a
\* line out of order or a premature end of the stream makes the read fail;
\* each completed group contributes one facet, in stream order.
C7_AsciiGrammar ==
    IsAsciiStream =>
        /\ pc = "done" => WellFormedAscii(SplitLinesFrom(file, 0))
        /\ pc \in {"_read_ascii", "_read_facet", "vertex", "endloop", "endfacet"}
              => GroupsParsed(SplitLinesFrom(file, 0),
                              IF pc = "endfacet" THEN Len(facets) - 1 ELSE Len(facets))

\* C7's case: a supplied stream of two groups, not the file write makes,
\* parsed to the end.
C7_Witness ==
    /\ pc = "done"
    /\ wstate = "none"
    /\ IsAsciiStream
    /\ file # CanonAscii
    /\ Len(facets) = 2
    /\ WellFormedAscii(SplitLinesFrom(file, 0))

\* 'solid\n' 'endsolid\n', and the binary header followed by a count of 0:
\* the streams of zero facets (the files write makes of an empty mesh).
ZeroFacetStreams ==
    { <<115, 111, 108, 105, 100, 10, 101, 110, 100, 115, 111, 108, 105, 100, 10>>,
      BinaryHeader \o UInt32Bytes(0) }

\* C8: zero facets produce empty vertices and empty triangles without
\* error, for the ASCII stream of a 'solid' and an 'endsolid' line and for
\* the binary stream whose count is 0.
C8_EmptyMesh ==
    (Finished /\ file \in ZeroFacetStreams) =>
        (pc = "done" /\ result.points = <<>> /\ result.triangle = <<>>)

\* C9: format detection fails only on the empty stream; on every other
\* stream it selects the ASCII parser when the first line begins with
\* 'solid' and the binary parser otherwise.
C9_DetectionTotal ==
    /\ errAt = "read_buffer" => file = <<>>
    /\ pc = "_read_ascii" => StartsWith(readline(file, 0), S_solid)
    /\ pc = "_read_binary" => ~StartsWith(readline(file, 0), S_solid)

\* C10: every call of read_buffer ends, with a mesh or with an error.
C10_ReadTerminates == (pc = "ready") ~> Finished

\* C10's case: an ASCII stream with no 'endsolid' line, read to its end,
\* where the empty line read there ended the call with an error.
C10_Witness ==
    /\ pc = "raised"
    /\ wstate = "none"
    /\ IsAsciiStream
    /\ \A i \in 1..Len(SplitLinesFrom(file, 0)) :
          ~StartsWith(strip(SplitLinesFrom(file, 0)[i]), S_endsolid)
    /\ pos = Len(file)
    /\ Len(facets) = 2


====
